---- MODULE Spec2Model ----
(***************************************************************************)
(* A model of rcclex's automaton-construction core:                        *)
(*   - Charset (src/src/charsets.rs), a set of byte values;                *)
(*   - UTnfa (src/src/utnfa.rs), the tagged NFA fragment and its           *)
(*     combinators;                                                        *)
(*   - Automata::eq (src/src/automata.rs), the permutation search;         *)
(*   - subtract_ranges, multibyte_range and Into<UTnfa> for Utf8Charset    *)
(*     (src/src/charsets.rs).                                              *)
(* Four specifications drive the four parts: SpecNfa, SpecEq, SpecSub and  *)
(* SpecConv.  Each leaves the other parts' variables at their idle value.  *)
(***************************************************************************)
EXTENDS Integers, Sequences, FiniteSets, TLC

VARIABLES
    stack,    \* SpecNfa: the UTnfa fragments under construction, innermost last
    lhs,      \* SpecEq: left operand of the comparison (an Automata)
    rhs,      \* SpecEq: right operand of the comparison (an Automata)
    how,      \* SpecEq: how rhs was obtained from lhs
    verdict,  \* SpecEq: <<eq(lhs, rhs), eq(rhs, lhs)>>
    sub_in,   \* SpecSub: the arguments [a, sub] of subtract_ranges
    sub_out,  \* SpecSub: its outcome [status, ranges, created]
    cs,       \* SpecConv: the Utf8Charset [ranges, invert]
    conv      \* SpecConv: the outcome of into(), [status, nfa]

vars == <<stack, lhs, rhs, how, verdict, sub_in, sub_out, cs, conv>>

(***************************************************************************)
(* Bounds of the model.                                                    *)
(***************************************************************************)
MaxNodes == 7      \* SpecNfa: the fragments under construction hold at most this many nodes
MaxDepth == 2      \* SpecNfa: at most this many fragments are under construction
MaxStrLen == 3     \* length of the byte strings whose acceptance is decided
MaxEqNodes == 3    \* SpecEq: node count of the automata compared
MaxEqEdges == 2    \* SpecEq: length of their edge lists
MaxA == 2          \* SpecSub: number of ranges in the list a
MaxSub == 2        \* SpecSub: number of ranges in the list sub
MaxRanges == 2     \* SpecConv: number of ranges added to a Utf8Charset

(***************************************************************************)
(* Small values.                                                           *)
(***************************************************************************)
Max(x, y) == IF x >= y THEN x ELSE y
Min(x, y) == IF x <= y THEN x ELSE y
Range(s) == {s[k] : k \in DOMAIN s}

\* Option<T>: None is the empty tuple, Some(x) the one-element tuple.
None == <<>>
Some(x) == <<x>>

(***************************************************************************)
(* Charset: the 256-bit mask is modelled as the set of its member bytes.   *)
(***************************************************************************)
Charset_empty == {}

from_range(r) == {c \in 0..255 : r[1] <= c /\ c <= r[2]}

from_char(c) == from_range(<<c, c>>)

contains(cset, c) == c \in cset

\* CharsetIter::next, run to exhaustion from position i: the member bytes
\* in ascending order.
RECURSIVE CharsetIter(_, _)
CharsetIter(cset, i) ==
    IF i > 255 THEN <<>>
    ELSE IF contains(cset, i) THEN <<i>> \o CharsetIter(cset, i + 1)
    ELSE CharsetIter(cset, i + 1)

iter(cset) == CharsetIter(cset, 0)

(***************************************************************************)
(* UTnfa: [nodes, begin, end, edges, eps_edges]; edges is a sequence of    *)
(* <<from, to, Charset>>, eps_edges a sequence of <<from, to, tag>>.       *)
(***************************************************************************)
UTnfa_empty ==
    [nodes |-> 1, begin |-> 0, end |-> 0, edges |-> <<>>, eps_edges |-> <<>>]

UTnfa_charset(c) ==
    [nodes |-> 2, begin |-> 0, end |-> 1,
     edges |-> << <<0, 1, c>> >>, eps_edges |-> <<>>]

UTnfa_tag(t) ==
    [nodes |-> 2, begin |-> 0, end |-> 1,
     edges |-> <<>>, eps_edges |-> << <<0, 1, t>> >>]

shift(self, n) ==
    [nodes |-> self.nodes,
     begin |-> self.begin + n,
     end |-> self.end + n,
     edges |-> [k \in DOMAIN self.edges |->
                  <<self.edges[k][1] + n, self.edges[k][2] + n, self.edges[k][3]>>],
     eps_edges |-> [k \in DOMAIN self.eps_edges |->
                  <<self.eps_edges[k][1] + n, self.eps_edges[k][2] + n,
                    self.eps_edges[k][3]>>]]

\* A faulty variant of merge: the receiver is not shifted before nfa's edges are copied.
merge_no_shift(self, nfa) ==
    [self EXCEPT !.nodes = @ + nfa.nodes,
                 !.edges = @ \o nfa.edges,
                 !.eps_edges = @ \o nfa.eps_edges]

merge(self, nfa) ==
    LET s == shift(self, nfa.nodes)
    IN  [s EXCEPT !.nodes = @ + nfa.nodes,
                  !.edges = @ \o nfa.edges,
                  !.eps_edges = @ \o nfa.eps_edges]

prepend_node(self) ==
    [self EXCEPT !.eps_edges = Append(@, <<self.nodes, self.begin, -1>>),
                 !.begin = self.nodes,
                 !.nodes = @ + 1]

append_node(self) ==
    [self EXCEPT !.eps_edges = Append(@, <<self.end, self.nodes, -1>>),
                 !.end = self.nodes,
                 !.nodes = @ + 1]

concat(self, nfa) ==
    LET m == merge(self, nfa)
    IN  [m EXCEPT !.eps_edges = Append(@, <<m.end, nfa.begin, -1>>),
                  !.end = nfa.end]

union(self, nfa) ==
    LET m == merge(self, nfa)
        p == prepend_node(m)
        q == [p EXCEPT !.eps_edges = Append(@, <<p.begin, nfa.begin, -1>>)]
        r == append_node(q)
    IN  [r EXCEPT !.eps_edges = Append(@, <<nfa.end, r.end, -1>>)]

\* A faulty variant of kleene: the back edge is added but end is left on the new end node.
kleene_keep_end(self) ==
    LET p == prepend_node(self)
        a == append_node(p)
    IN  [a EXCEPT !.eps_edges = Append(@, <<a.end, a.begin, -1>>)]

kleene(self) ==
    LET p == prepend_node(self)
        a == append_node(p)
    IN  [a EXCEPT !.eps_edges = Append(@, <<a.end, a.begin, -1>>),
                  !.end = a.begin]

optional(self) == union(self, UTnfa_empty)

(***************************************************************************)
(* Acceptance: the byte strings on a path from begin to end, epsilon       *)
(* edges consuming nothing, byte edges one member byte.                    *)
(***************************************************************************)
RECURSIVE EpsClosure(_, _)
EpsClosure(f, S) ==
    LET T == S \cup {e[2] : e \in {x \in Range(f.eps_edges) : x[1] \in S}}
    IN  IF T = S THEN S ELSE EpsClosure(f, T)

ByteStep(f, S, b) ==
    {e[2] : e \in {x \in Range(f.edges) : x[1] \in S /\ contains(x[3], b)}}

RECURSIVE Run(_, _, _)
Run(f, S, s) ==
    IF s = <<>> THEN S
    ELSE Run(f, EpsClosure(f, ByteStep(f, S, Head(s))), Tail(s))

Accepts(f, s) == f.end \in Run(f, EpsClosure(f, {f.begin}), s)

(***************************************************************************)
(* Codepoint ranges.  A char is modelled by its u32 value; a range is      *)
(* <<lo, hi>>.                                                             *)
(***************************************************************************)
UTF8_RANGES == << <<0, 127>>, <<128, 2047>>, <<2048, 65535>>, <<65536, 1114111>> >>

\* The values a char may hold: U+0000..U+10FFFF without the surrogates
\* U+D800..U+DFFF.
IsScalar(v) == 0 <= v /\ v <= 1114111 /\ ~(55296 <= v /\ v <= 57343)

intersect_ranges(a, b) ==
    LET lo == Max(a[1], b[1])
        hi == Min(a[2], b[2])
    IN  IF lo > hi THEN None ELSE Some(<<lo, hi>>)

\* char::from_u32_unchecked(v) is undefined behaviour when v is no scalar
\* value.  Two outcomes of a build are modelled: without debug assertions the
\* value is kept as it is ("transmute"); with them the precondition check of
\* the conversion aborts the program ("abort").
UBOutcomes == {"transmute", "abort"}

from_u32_unchecked(v, ub) ==
    [status |-> IF IsScalar(v) \/ ub = "transmute" THEN "ok" ELSE "abort", value |-> v]

\* The match on intersect_ranges(old, s) in the inner loop: the ranges pushed
\* to dp[i ^ 1] and the values handed to from_u32_unchecked.
subtract_one(old, s, ub) ==
    LET is == intersect_ranges(old, s)
    IN  IF is = None
        THEN [status |-> "ok", out |-> << old >>, created |-> <<>>]
        ELSE LET i == is[1]
                 left == old[1] < i[1]
                 right == old[2] > i[2]
                 lv == from_u32_unchecked(i[1] - 1, ub)
                 rv == from_u32_unchecked(i[2] + 1, ub)
             IN  IF left /\ lv.status = "abort"
                 THEN [status |-> "abort", out |-> <<>>, created |-> << lv.value >>]
                 ELSE [status |-> IF right /\ rv.status = "abort" THEN "abort" ELSE "ok",
                       out |-> (IF left THEN << <<old[1], lv.value>> >> ELSE <<>>)
                               \o (IF right THEN << <<rv.value, old[2]>> >> ELSE <<>>),
                       created |-> (IF left THEN << lv.value >> ELSE <<>>)
                                   \o (IF right THEN << rv.value >> ELSE <<>>)]

\* for j in 0..dp[i].len(): the pass over the ranges src of dp[i] from
\* position j on, acc holding dp[i ^ 1] and the values created so far.
RECURSIVE subtract_pass(_, _, _, _, _)
subtract_pass(src, j, s, ub, acc) ==
    IF j > Len(src) \/ acc.status = "abort" THEN acc
    ELSE LET one == subtract_one(src[j], s, ub)
         IN  subtract_pass(src, j + 1, s, ub,
                           [status |-> one.status,
                            out |-> acc.out \o one.out,
                            created |-> acc.created \o one.created])

\* for (i, s) in sub: the loop over sub from its k-th range on (k from 1);
\* dp is the pair of buffers, dp[1] being the code's dp[0].
RECURSIVE subtract_loop(_, _, _, _, _)
subtract_loop(dp, sub, k, ub, created) ==
    IF k > Len(sub) THEN [status |-> "ok", dp |-> dp, created |-> created]
    ELSE LET i == (k - 1) % 2
             pass == subtract_pass(dp[i + 1], 1, sub[k], ub,
                                   [status |-> "ok", out |-> <<>>, created |-> created])
         IN  IF pass.status = "abort"
             THEN [status |-> "abort", dp |-> dp, created |-> pass.created]
             ELSE subtract_loop([dp EXCEPT ![(1 - i) + 1] = pass.out], sub, k + 1, ub,
                                pass.created)

subtract_ranges(a, sub, ub) ==
    LET run == subtract_loop(<<a, <<>> >>, sub, 1, ub, <<>>)
    IN  [status |-> run.status,
         ranges |-> IF run.status = "ok" THEN run.dp[(Len(sub) % 2) + 1] ELSE <<>>,
         created |-> run.created]

(***************************************************************************)
(* Utf8Charset into UTnfa.                                                 *)
(***************************************************************************)
len_utf8(c) == IF c < 128 THEN 1 ELSE IF c < 2048 THEN 2 ELSE IF c < 65536 THEN 3 ELSE 4

\* The UTF-8 encoding of c.
utf8_bytes(c) ==
    CASE len_utf8(c) = 1 -> << c >>
      [] len_utf8(c) = 2 -> << 192 + (c \div 64), 128 + (c % 64) >>
      [] len_utf8(c) = 3 ->
            << 224 + (c \div 4096), 128 + ((c \div 64) % 64), 128 + (c % 64) >>
      [] OTHER ->
            << 240 + (c \div 262144), 128 + ((c \div 4096) % 64),
               128 + ((c \div 64) % 64), 128 + (c % 64) >>

\* c.encode_utf8(&mut buf): panics when buf is shorter than the encoding,
\* else overwrites the head of buf with it.
encode_utf8(c, buf) ==
    IF len_utf8(c) > Len(buf)
    THEN [status |-> "panic", buf |-> buf]
    ELSE [status |-> "ok",
          buf |-> [k \in DOMAIN buf |->
                     IF k <= len_utf8(c) THEN utf8_bytes(c)[k] ELSE buf[k]]]

\* for i in 0..count: u.concat(charset(from_range((g.0[i], g.1[i])))), from
\* position i (from 1) on.
RECURSIVE concat_bytes(_, _, _, _, _)
concat_bytes(u, g0, g1, i, count) ==
    IF i > count THEN u
    ELSE concat_bytes(concat(u, UTnfa_charset(from_range(<<g0[i], g1[i]>>))),
                      g0, g1, i + 1, count)

\* The body of the loop over the four length classes for one class.
multibyte_class(res, r, count) ==
    IF r = None THEN [status |-> "ok", res |-> res]
    ELSE LET g0 == encode_utf8(r[1][1], <<0, 0, 0, 0>>)
             g1 == encode_utf8(r[1][2], <<0, 4>>)
         IN  IF g0.status = "panic" \/ g1.status = "panic"
             THEN [status |-> "panic", res |-> res]
             ELSE [status |-> "ok",
                   res |-> union(res, concat_bytes(UTnfa_empty, g0.buf, g1.buf, 1, count))]

RECURSIVE multibyte_loop(_, _, _, _)
multibyte_loop(acc, a, b, count) ==
    IF count > 4 \/ acc.status = "panic" THEN acc
    ELSE multibyte_loop(
             multibyte_class(acc.res, intersect_ranges(<<a, b>>, UTF8_RANGES[count]), count),
             a, b, count + 1)

\* The last expression of multibyte_range is UTnfa::empty(): the accumulated
\* res is dropped.
multibyte_range(a, b) ==
    LET run == multibyte_loop([status |-> "ok", res |-> UTnfa_empty], a, b, 1)
    IN  [status |-> run.status, nfa |-> UTnfa_empty]

\* for range in ranges: res.union(&multibyte_range(range.0, range.1)), from
\* the k-th range on.
RECURSIVE into_loop(_, _, _)
into_loop(res, ranges, k) ==
    IF k > Len(ranges) THEN [status |-> "ok", nfa |-> res]
    ELSE LET m == multibyte_range(ranges[k][1], ranges[k][2])
         IN  IF m.status = "panic" THEN [status |-> "panic", nfa |-> res]
             ELSE into_loop(union(res, m.nfa), ranges, k + 1)

into(self, ub) ==
    LET inverted == subtract_ranges(UTF8_RANGES, self.ranges, ub)
    IN  IF self.invert /\ inverted.status = "abort"
        THEN [status |-> "abort", nfa |-> UTnfa_empty]
        ELSE into_loop(UTnfa_empty,
                       IF self.invert THEN inverted.ranges ELSE self.ranges, 1)

(***************************************************************************)
(* The Automata trait.  A SimpleAutomata is [begin, nodes, finals, edges], *)
(* edges a sequence of <<from, to, Option<u8>, tag>>; a UTnfa is told from *)
(* it by its eps_edges field.                                              *)
(***************************************************************************)
IsUTnfa(x) == "eps_edges" \in DOMAIN x

SimpleAutomata(b, n, fin, es) ==
    [begin |-> b, nodes |-> n, finals |-> fin, edges |-> es]

UTnfa_begin(self) == self.begin
UTnfa_nodes(self) == self.nodes
UTnfa_is_final(self, n) == n = self.end

\* One byte edge yields one item per member byte, in ascending order.
UTnfa_flat(e) ==
    LET bs == iter(e[3])
    IN  [k \in DOMAIN bs |-> <<e[1], e[2], Some(bs[k]), -1>>]

RECURSIVE UTnfa_flat_map(_)
UTnfa_flat_map(es) ==
    IF es = <<>> THEN <<>> ELSE UTnfa_flat(Head(es)) \o UTnfa_flat_map(Tail(es))

UTnfa_list_edges(self) ==
    UTnfa_flat_map(self.edges)
    \o [k \in DOMAIN self.eps_edges |->
          <<self.eps_edges[k][1], self.eps_edges[k][2], None, self.eps_edges[k][3]>>]

Simple_begin(self) == self.begin
Simple_nodes(self) == self.nodes
Simple_is_final(self, n) == n \in self.finals
Simple_list_edges(self) == self.edges

Automata_begin(x) == IF IsUTnfa(x) THEN UTnfa_begin(x) ELSE Simple_begin(x)
Automata_nodes(x) == IF IsUTnfa(x) THEN UTnfa_nodes(x) ELSE Simple_nodes(x)
Automata_is_final(x, n) ==
    IF IsUTnfa(x) THEN UTnfa_is_final(x, n) ELSE Simple_is_final(x, n)
Automata_list_edges(x) ==
    IF IsUTnfa(x) THEN UTnfa_list_edges(x) ELSE Simple_list_edges(x)

\* The bijections on 0..n-1, tabulated once for the node counts of the model.
PermutationTable ==
    [n \in 0..Max(MaxEqNodes, 1) |->
        {v \in [0..(n - 1) -> 0..(n - 1)] :
            \A i, j \in 0..(n - 1) : i # j => v[i] # v[j]}]

\* (0..n).permutations(n): the bijections on the node indices.
permutations(n) == PermutationTable[n]

\* The loop over v.iter().enumerate(): on a finality mismatch its `continue`
\* goes on to the next node of the same permutation, so the loop ends having
\* decided nothing about v.
finality_loop(self, other, v) ==
    \A i \in DOMAIN v :
        (Automata_is_final(self, i) # Automata_is_final(other, v[i])) => TRUE

\* A faulty variant of eq: the edge sets' sizes are not compared.
eq_no_size_check(self, other) ==
    IF Automata_nodes(self) # Automata_nodes(other) THEN FALSE
    ELSE LET self_edges == Range(Automata_list_edges(self))
             other_edges == Range(Automata_list_edges(other))
         IN  \E v \in permutations(Automata_nodes(self)) :
                /\ v[Automata_begin(self)] = Automata_begin(other)
                /\ finality_loop(self, other, v)
                /\ \A e \in self_edges :
                      <<v[e[1]], v[e[2]], e[3], e[4]>> \in other_edges

\* A faulty variant of eq: an edge's target is looked up without the permutation.
eq_unmapped_target(self, other) ==
    IF Automata_nodes(self) # Automata_nodes(other) THEN FALSE
    ELSE LET self_edges == Range(Automata_list_edges(self))
             other_edges == Range(Automata_list_edges(other))
         IN  IF Cardinality(self_edges) # Cardinality(other_edges) THEN FALSE
             ELSE \E v \in permutations(Automata_nodes(self)) :
                    /\ v[Automata_begin(self)] = Automata_begin(other)
                    /\ finality_loop(self, other, v)
                    /\ \A e \in self_edges :
                          <<v[e[1]], e[2], e[3], e[4]>> \in other_edges

eq(self, other) ==
    IF Automata_nodes(self) # Automata_nodes(other) THEN FALSE
    ELSE LET self_edges == Range(Automata_list_edges(self))
             other_edges == Range(Automata_list_edges(other))
         IN  IF Cardinality(self_edges) # Cardinality(other_edges) THEN FALSE
             ELSE \E v \in permutations(Automata_nodes(self)) :
                    /\ v[Automata_begin(self)] = Automata_begin(other)
                    /\ finality_loop(self, other, v)
                    /\ \A e \in self_edges :
                          <<v[e[1]], v[e[2]], e[3], e[4]>> \in other_edges

(***************************************************************************)
(* SpecNfa: a pattern compiler builds a fragment bottom-up.  It keeps the  *)
(* fragments under construction on a stack: a primitive pushes a fragment, *)
(* a unary combinator rewrites the top one, a binary combinator folds the  *)
(* top fragment (the borrowed operand nfa) into the one below it (self).   *)
(***************************************************************************)
SampleRanges == {<<97, 97>>, <<97, 98>>, <<98, 97>>}
SampleTags == {5}

RECURSIVE TotalNodes(_)
TotalNodes(st) == IF st = <<>> THEN 0 ELSE Head(st).nodes + TotalNodes(Tail(st))

Top(st) == st[Len(st)]
Below(st) == st[Len(st) - 1]
Pop(st, n) == SubSeq(st, 1, Len(st) - n)

IdleNfa == stack = <<>>
IdleEq == /\ lhs = None /\ rhs = None /\ how = None /\ verdict = None
IdleSub == sub_in = [a |-> <<>>, sub |-> <<>>] /\ sub_out = [status |-> "idle"]
IdleConv == cs = [ranges |-> <<>>, invert |-> FALSE] /\ conv = [status |-> "idle"]

InitNfa == /\ stack = <<>>
           /\ IdleEq /\ IdleSub /\ IdleConv

NfaFrame == UNCHANGED <<lhs, rhs, how, verdict, sub_in, sub_out, cs, conv>>

Push(f) ==
    /\ Len(stack) < MaxDepth
    /\ TotalNodes(stack) + f.nodes <= MaxNodes
    /\ stack' = Append(stack, f)
    /\ NfaFrame

Unary(f) ==
    /\ TotalNodes(Pop(stack, 1)) + f.nodes <= MaxNodes
    /\ stack' = Append(Pop(stack, 1), f)
    /\ NfaFrame

Binary(f) ==
    /\ TotalNodes(Pop(stack, 2)) + f.nodes <= MaxNodes
    /\ stack' = Append(Pop(stack, 2), f)
    /\ NfaFrame

Empty == Push(UTnfa_empty)

Charset == \E r \in SampleRanges : Push(UTnfa_charset(from_range(r)))

Tag == \E t \in SampleTags : Push(UTnfa_tag(t))

Concat == Len(stack) >= 2 /\ Binary(concat(Below(stack), Top(stack)))

Union == Len(stack) >= 2 /\ Binary(union(Below(stack), Top(stack)))

Kleene == Len(stack) >= 1 /\ Unary(kleene(Top(stack)))

Optional == Len(stack) >= 1 /\ Unary(optional(Top(stack)))

\* The finished fragment is handed on and the compiler starts afresh.
Finish == Len(stack) = 1 /\ stack' = <<>> /\ NfaFrame

NextNfa ==
    \/ Empty
    \/ Charset
    \/ Tag
    \/ Concat
    \/ Union
    \/ Kleene
    \/ Optional
    \/ Finish

SpecNfa == InitNfa /\ [][NextNfa]_vars

(***************************************************************************)
(* Claims about the UTnfa combinators (SpecNfa).                           *)
(***************************************************************************)
WellFormed(f) ==
    /\ f.begin < f.nodes
    /\ f.end < f.nodes
    /\ \A e \in Range(f.edges) \cup Range(f.eps_edges) :
          e[1] < f.nodes /\ e[2] < f.nodes

\* The node indices that the part of the merged fragment r copied from the
\* receiver refers to: its byte and epsilon edges come first in r, and the
\* edges that wire it up name its begin and end.
SelfRefs(r, self, nfa, wired) ==
    LET ne == Len(self.eps_edges) + Len(nfa.eps_edges)
    IN  {r.edges[k][j] : k \in 1..Len(self.edges), j \in 1..2}
        \cup {r.eps_edges[k][j] : k \in 1..Len(self.eps_edges), j \in 1..2}
        \cup (IF wired = "concat"
              THEN {r.begin, r.eps_edges[ne + 1][1]}
              ELSE {r.eps_edges[ne + 1][2], r.eps_edges[ne + 3][1]})

\* The node indices that the part of r copied from the operand refers to.
NfaRefs(r, self, nfa, wired) ==
    LET ne == Len(self.eps_edges) + Len(nfa.eps_edges)
        be == Len(self.edges)
        bp == Len(self.eps_edges)
    IN  {r.edges[k][j] : k \in (be + 1)..(be + Len(nfa.edges)), j \in 1..2}
        \cup {r.eps_edges[k][j] : k \in (bp + 1)..ne, j \in 1..2}
        \cup (IF wired = "concat"
              THEN {r.end, r.eps_edges[ne + 1][2]}
              ELSE {r.eps_edges[ne + 2][2], r.eps_edges[ne + 4][1]})

OperandsDisjoint(r, self, nfa, wired) ==
    /\ SelfRefs(r, self, nfa, wired) \cap NfaRefs(r, self, nfa, wired) = {}
    /\ SelfRefs(r, self, nfa, wired) \cap (0..(nfa.nodes - 1)) = {}
    /\ NfaRefs(r, self, nfa, wired) \subseteq 0..(nfa.nodes - 1)
    /\ Cardinality(SelfRefs(r, self, nfa, wired)) + Cardinality(NfaRefs(r, self, nfa, wired))
          <= self.nodes + nfa.nodes

C4_Step ==
    /\ \A k \in DOMAIN stack' : WellFormed(stack'[k])
    /\ Concat => OperandsDisjoint(Top(stack'), Below(stack), Top(stack), "concat")
    /\ Union => OperandsDisjoint(Top(stack'), Below(stack), Top(stack), "union")

\* C4: after every UTnfa operation each fragment has begin < nodes,
\* end < nodes and every byte and epsilon edge endpoint < nodes, and after
\* concat or union the node indices of the two operands are disjoint.
C4_IndicesInRangeAndDisjoint == [][C4_Step]_vars

\* A union whose receiver is itself a concat has acted.
C4_Witness ==
    /\ Len(stack) = 1
    /\ stack[1] = union(concat(UTnfa_empty, UTnfa_tag(5)),
                        UTnfa_charset(from_range(<<97, 98>>)))

Alphabet == {97, 98}
Strings == UNION {[1..n -> Alphabet] : n \in 0..MaxStrLen}

\* The strings of length at most MaxStrLen that extend pre and are accepted,
\* S being the nodes reached on pre (Run(f, EpsClosure(f, {f.begin}), pre)).
RECURSIVE LangFrom(_, _, _)
LangFrom(f, S, pre) ==
    IF S = {} THEN {}
    ELSE (IF f.end \in S THEN {pre} ELSE {})
         \cup (IF Len(pre) >= MaxStrLen THEN {}
               ELSE UNION {LangFrom(f, EpsClosure(f, ByteStep(f, S, b)), Append(pre, b)) :
                             b \in Alphabet})

\* The accepted byte strings of length at most MaxStrLen:
\* {s \in Strings : Accepts(f, s)}.
Lang(f) == LangFrom(f, EpsClosure(f, {f.begin}), <<>>)

LConcat(A, B) ==
    {s \in Strings : \E k \in 0..Len(s) :
        SubSeq(s, 1, k) \in A /\ SubSeq(s, k + 1, Len(s)) \in B}

RECURSIVE StarFrom(_, _)
StarFrom(A, X) ==
    LET Y == X \cup LConcat(X, A)
    IN  IF Y = X THEN X ELSE StarFrom(A, Y)

LStar(A) == StarFrom(A, {<<>>})

C5_Step ==
    /\ Empty => Lang(Top(stack')) = {<<>>}
    /\ \A r \in SampleRanges :
          Push(UTnfa_charset(from_range(r))) =>
              Lang(Top(stack')) =
                  {s \in Strings : Len(s) = 1 /\ r[1] <= s[1] /\ s[1] <= r[2]}
    /\ Tag => Lang(Top(stack')) = {<<>>}
    /\ Concat => Lang(Top(stack')) = LConcat(Lang(Below(stack)), Lang(Top(stack)))
    /\ Union => Lang(Top(stack')) = Lang(Below(stack)) \cup Lang(Top(stack))
    /\ Kleene => Lang(Top(stack')) = LStar(Lang(Top(stack)))
    /\ Optional => Lang(Top(stack')) = Lang(Top(stack)) \cup {<<>>}

\* C5: the byte strings on a path from begin to end of a fragment are the
\* language of the operation that built it from the languages of its
\* operands: {""} for empty and tag, the one-byte strings in c for
\* charset(c), L(a)L(b) for concat, L(a) \cup L(b) for union, L(a)* for
\* kleene, L(a) \cup {""} for optional; kleene results are among the operands.
C5_LanguageOfTree == [][C5_Step]_vars

\* A concat whose operand is a kleene result (end = begin) has acted.
C5_Witness ==
    /\ Len(stack) = 1
    /\ stack[1] = concat(UTnfa_charset(from_range(<<97, 97>>)),
                         kleene(UTnfa_charset(from_range(<<97, 98>>))))
    /\ Lang(stack[1]) = {s \in Strings : Len(s) >= 1 /\ s[1] = 97}

(***************************************************************************)
(* SpecEq: the harness of automata_test::simple_test.  An automaton a is   *)
(* written down (lhs), a second one is obtained from it (rhs) by           *)
(* relabelling its nodes, by changing one edge's target or by changing     *)
(* one node's finality, and the two are compared both ways.                *)
(***************************************************************************)
\* The edges an automaton of n nodes is written with: byte edges on byte 1.
EdgeUniverse(n) == {<<a, b, Some(1), -1>> : a \in 0..(n - 1), b \in 0..(n - 1)}

\* A total order on the edges of the universe, to write each list down once.
EdgeRank(e, n) == e[1] * n + e[2]

\* The edge lists of length at most MaxEqEdges, in rank order (an edge may
\* occur twice).
EdgeLists(n) ==
    UNION {{es \in [1..m -> EdgeUniverse(n)] :
              \A k \in 1..(m - 1) : EdgeRank(es[k], n) <= EdgeRank(es[k + 1], n)} :
           m \in 0..MaxEqEdges}

\* The final sets an automaton of n nodes is written with.
FinalSets(n) == {{}, {0}, {n - 1}, 0..(n - 1)}

\* The automaton with p applied to begin, the finals and every edge endpoint.
Relabelled(a, p) ==
    SimpleAutomata(p[a.begin], a.nodes, {p[i] : i \in a.finals},
                   [k \in DOMAIN a.edges |->
                      <<p[a.edges[k][1]], p[a.edges[k][2]], a.edges[k][3], a.edges[k][4]>>])

Compare(a, b, h) ==
    /\ lhs' = a
    /\ rhs' = b
    /\ how' = h
    /\ verdict' = <<eq(a, b), eq(b, a)>>

EqFrame == UNCHANGED <<stack, sub_in, sub_out, cs, conv>>

InitEq ==
    /\ \E n \in 1..MaxEqNodes :
          \E fin \in FinalSets(n), es \in EdgeLists(n) :
              lhs = SimpleAutomata(0, n, fin, es)
    /\ rhs = lhs
    /\ how = "same"
    /\ verdict = <<eq(lhs, rhs), eq(rhs, lhs)>>
    /\ IdleNfa /\ IdleSub /\ IdleConv

Relabel ==
    /\ how = "same"
    /\ \E p \in permutations(lhs.nodes) : Compare(lhs, Relabelled(lhs, p), "relabel")
    /\ EqFrame

\* shifted.edges[k] = (from, t, ..): the target of one edge is replaced.
Retarget ==
    /\ how = "same"
    /\ \E k \in DOMAIN lhs.edges, t \in 0..(lhs.nodes - 1) :
          /\ t # lhs.edges[k][2]
          /\ Compare(lhs, [lhs EXCEPT !.edges[k][2] = t], "retarget")
    /\ EqFrame

ToggleFinal ==
    /\ how = "same"
    /\ \E i \in 0..(lhs.nodes - 1) :
          Compare(lhs,
                  [lhs EXCEPT !.finals = IF i \in @ THEN @ \ {i} ELSE @ \cup {i}],
                  "final")
    /\ EqFrame

NextEq == Relabel \/ Retarget \/ ToggleFinal

SpecEq == InitEq /\ [][NextEq]_vars

\* There is a bijection p on the node indices with p(a.begin) = b.begin and
\* the image of a's edges equal to b's edges.
EdgeIso(a, b) ==
    /\ Automata_nodes(a) = Automata_nodes(b)
    /\ \E p \in permutations(Automata_nodes(a)) :
          /\ p[Automata_begin(a)] = Automata_begin(b)
          /\ {<<p[e[1]], p[e[2]], e[3], e[4]>> : e \in Range(Automata_list_edges(a))}
                = Range(Automata_list_edges(b))

\* As EdgeIso, with a.is_final(i) = b.is_final(p(i)) for every node i.
Isomorphic(a, b) ==
    /\ Automata_nodes(a) = Automata_nodes(b)
    /\ \E p \in permutations(Automata_nodes(a)) :
          /\ p[Automata_begin(a)] = Automata_begin(b)
          /\ \A i \in DOMAIN p : Automata_is_final(a, i) = Automata_is_final(b, p[i])
          /\ {<<p[e[1]], p[e[2]], e[3], e[4]>> : e \in Range(Automata_list_edges(a))}
                = Range(Automata_list_edges(b))

\* C3: eq(A, B) returns true only if a bijection on the node indices maps
\* A.begin to B.begin, preserves finality at every node and maps A's edges
\* onto B's edges.
C3_EqOnlyIfIsomorphic == verdict[1] => Isomorphic(lhs, rhs)

\* C6: eq is reflexive and invariant under relabelling: eq(A, A), and
\* eq(A, B) and eq(B, A) for B the image of A under a node bijection, all
\* return true.
C6_EqReflexiveAndRelabelInvariant ==
    how \in {"same", "relabel"} => verdict = <<TRUE, TRUE>>

\* A relabelling that moves begin and the finals has been compared.
C6_Witness ==
    /\ how = "relabel"
    /\ rhs.begin # lhs.begin
    /\ rhs.finals # lhs.finals
    /\ Len(lhs.edges) = MaxEqEdges
    /\ rhs.edges # lhs.edges

ExpectedEmpty == SimpleAutomata(0, 1, {}, <<>>)

\* The edges that can be added to a one-node automaton.
LoopEdges ==
    {<<0, 0, c, t>> : c \in {None} \cup {Some(b) : b \in 0..255}, t \in {-1} \cup SampleTags}

InitEmpty ==
    /\ lhs = UTnfa_empty
    /\ rhs = ExpectedEmpty
    /\ how = "expected"
    /\ verdict = <<eq(lhs, rhs), eq(rhs, lhs)>>
    /\ IdleNfa /\ IdleSub /\ IdleConv

MarkFinal ==
    /\ how = "expected"
    /\ Compare(lhs, [rhs EXCEPT !.finals = @ \cup {0}], "final")
    /\ EqFrame

AddEdge ==
    /\ how = "expected"
    /\ \E e \in LoopEdges : Compare(lhs, [rhs EXCEPT !.edges = Append(@, e)], "edge")
    /\ EqFrame

NextEmpty == MarkFinal \/ AddEdge

SpecEmpty == InitEmpty /\ [][NextEmpty]_vars

CharSamples == {0, 97, 55295, 57344, 1114111}

SampleCharRanges == {<<lo, hi>> : lo \in CharSamples, hi \in CharSamples}

Ascending(rs) ==
    /\ \A k \in DOMAIN rs : rs[k][1] <= rs[k][2]
    /\ \A k \in 1..(Len(rs) - 1) : rs[k][2] < rs[k + 1][1]

AscendingLists ==
    UNION {{rs \in [1..m -> SampleCharRanges] : Ascending(rs)} : m \in 0..MaxA}

SubLists == UNION {[1..m -> SampleCharRanges] : m \in 0..MaxSub}

SubFrame == UNCHANGED <<stack, lhs, rhs, how, verdict, cs, conv>>

InitSub ==
    /\ \E a \in AscendingLists \cup {UTF8_RANGES}, sub \in SubLists :
          sub_in = [a |-> a, sub |-> sub]
    /\ sub_out = [status |-> "ready"]
    /\ IdleNfa /\ IdleEq
    /\ IdleConv

Subtract ==
    /\ sub_out.status = "ready"
    /\ \E ub \in UBOutcomes :
          sub_out' = subtract_ranges(sub_in.a, sub_in.sub, ub)
    /\ UNCHANGED sub_in
    /\ SubFrame

NextSub == Subtract

SpecSub == InitSub /\ [][NextSub]_vars

InRanges(c, rs) == \E k \in DOMAIN rs : rs[k][1] <= c /\ c <= rs[k][2]

\* The codepoints at and next to every endpoint of the lists: membership in
\* a union of ranges is constant between two of them.
ProbePoints(rss) ==
    {c \in UNION {{r[1] - 1, r[1], r[1] + 1, r[2] - 1, r[2], r[2] + 1} :
                    r \in UNION {Range(rs) : rs \in rss}} : IsScalar(c)}

\* The result is an ascending list of pairwise non-overlapping ranges, each
\* holding at least one char, whose union is the chars of a in no range of
\* sub; it is empty when sub covers a.
IsDifference(out, a, sub) ==
    /\ \A k \in DOMAIN out :
          out[k][1] <= out[k][2] /\ ~(55296 <= out[k][1] /\ out[k][2] <= 57343)
    /\ \A k \in 1..(Len(out) - 1) : out[k][2] < out[k + 1][1]
    /\ \A c \in ProbePoints({out, a, sub}) :
          InRanges(c, out) <=> (InRanges(c, a) /\ ~InRanges(c, sub))
    /\ (\A c \in ProbePoints({a, sub}) : InRanges(c, a) => InRanges(c, sub)) => out = <<>>

\* C9: for ascending, pairwise disjoint a and any sub, subtract_ranges
\* returns an ascending list of pairwise non-overlapping, non-empty ranges
\* whose union is the codepoints of a that lie in no range of sub, read from
\* the right buffer for even and odd lengths of sub, and empty when sub
\* covers a.
C9_SubtractIsDifference ==
    sub_out.status \notin {"idle", "ready"} =>
        /\ sub_out.status = "ok"
        /\ IsDifference(sub_out.ranges, sub_in.a, sub_in.sub)

\* C10: every endpoint subtract_ranges creates with from_u32_unchecked is a
\* Unicode scalar value, the endpoints of a and sub being scalar values; a =
\* UTF8_RANGES is among the inputs.
C10_CreatedEndpointsAreScalar ==
    sub_out.status \notin {"idle", "ready"} =>
        \A k \in DOMAIN sub_out.created : IsScalar(sub_out.created[k])

\* Away from the surrogate block (no created endpoint falls into it) the
\* result of subtract_ranges is the difference.
SubtractIsDifferenceAwayFromSurrogates ==
    (/\ sub_out.status \notin {"idle", "ready"}
     /\ \A k \in DOMAIN sub_out.created : IsScalar(sub_out.created[k]))
        => /\ sub_out.status = "ok"
           /\ IsDifference(sub_out.ranges, sub_in.a, sub_in.sub)

(***************************************************************************)
(* SpecConv: a Utf8Charset is built by add_char / add_range / invert and   *)
(* consumed once by into().                                                *)
(***************************************************************************)
ConvSamples == {97, 122, 2047, 2048, 57344, 1114111}

ConvRanges == {<<lo, hi>> : lo \in ConvSamples, hi \in ConvSamples}

ConvFrame == UNCHANGED <<stack, lhs, rhs, how, verdict, sub_in, sub_out>>

\* Utf8Charset::empty, then add_char / add_range for every range, then invert.
InitConv ==
    /\ \E m \in 0..MaxRanges :
          \E rs \in [1..m -> ConvRanges], inv \in BOOLEAN :
              cs = [ranges |-> rs, invert |-> inv]
    /\ conv = [status |-> "ready"]
    /\ IdleNfa /\ IdleEq
    /\ IdleSub

Into ==
    /\ conv.status = "ready"
    /\ \E ub \in UBOutcomes : conv' = into(cs, ub)
    /\ UNCHANGED cs
    /\ ConvFrame

NextConv == Into

SpecConv == InitConv /\ [][NextConv]_vars

\* The codepoints whose encodings are tried: the samples and their
\* neighbours.
ProbeChars == {c \in UNION {{x - 1, x, x + 1} : x \in ConvSamples} : IsScalar(c)}

\* Byte strings that encode no codepoint: a lone continuation byte, a
\* truncated two-byte sequence, an overlong encoding, a byte no encoding has.
Malformed == {<<128>>, <<195>>, <<192, 128>>, <<255>>, <<225, 128>>}

ProbeStrings == {<<>>} \cup {utf8_bytes(c) : c \in ProbeChars} \cup Malformed

\* s is the UTF-8 encoding of one codepoint lying in one of the ranges.
EncodesMember(s, ranges) ==
    \E c \in ProbeChars : utf8_bytes(c) = s /\ InRanges(c, ranges)

\* C1: with invert = false the UTnfa produced by into() accepts a byte string
\* iff it is the UTF-8 encoding of one codepoint lying in one of the ranges;
\* it rejects the empty string, other codepoints' encodings and malformed
\* sequences.
C1_AcceptsExactlyEncodings ==
    (conv.status \notin {"idle", "ready"} /\ ~cs.invert) =>
        /\ conv.status = "ok"
        /\ \A s \in ProbeStrings : Accepts(conv.nfa, s) <=> EncodesMember(s, cs.ranges)

\* C2: into() is total: for every list of ranges with endpoints anywhere in
\* U+0000..U+10FFFF and either value of invert it completes and returns a
\* fragment, every buffer access staying in bounds.
C2_IntoIsTotal == conv.status \notin {"idle", "ready"} => conv.status = "ok"

====
